---- MODULE Spec2Model ----
(***************************************************************************)
(* A model of the geometry primitives of hotpot/geometry/primiary.py       *)
(* (Cartesian3, Segment, Surface, Box) and of the cursor context manager   *)
(* of hotpot/database.py.                                                  *)
(*                                                                         *)
(* Numbers.  The source computes in IEEE floating point.  The model        *)
(* computes in exact rational arithmetic: a number is a pair <<n, d>> in   *)
(* lowest terms with d >= 0, and d = 0 encodes the non-finite values that  *)
(* a division produces (<<1,0>> = +inf, <<-1,0>> = -inf, <<0,0>> = nan).   *)
(* Rounding error and signed zeros are not modelled; angles are whole      *)
(* quarter turns, whose sine and cosine are exact.                         *)
(*                                                                         *)
(* Exceptions.  A call that raises yields the record [err |-> <name>]      *)
(* instead of a value; every operation passes on an error it is handed.    *)
(***************************************************************************)
EXTENDS Integers, Sequences, FiniteSets, TLC

VARIABLES
    op,      \* the call last applied to the inputs ("init" before any call)
    args,    \* the inputs of the call, drawn in Init
    res,     \* what the call returned or raised
    dbpc,    \* Database.cursor(): position of the caller in its `with` block
    uses,    \* Database.cursor(): one record per use, its connection and cursor
    arrays,  \* object store: every array created so far, by identity
    objs,    \* object store: every Cartesian3/Surface/Box created so far
    roots,   \* object store: the objects the caller holds a name for
    last     \* object store: the call last made and what it delivered

vars == <<op, args, res, dbpc, uses, arrays, objs, roots, last>>

---------------------------------------------------------------------------
(* Bounds of the model *)

MaxLen == 2       \* longest point batch drawn as an input
MaxDim == 3       \* box and rectangle dimensions range over 1 .. MaxDim
MaxUses == 5      \* uses of Database.cursor() in one run
MaxCalls == 2     \* calls made in a row on the objects of the store

---------------------------------------------------------------------------
(* Exact numbers *)

Abs(n) == IF n < 0 THEN -n ELSE n

Sgn(n) == IF n < 0 THEN -1 ELSE IF n = 0 THEN 0 ELSE 1

RECURSIVE GCD(_, _)
GCD(a, b) == IF b = 0 THEN a ELSE GCD(b, a % b)

\* the number n/d in lowest terms; n/0 is +inf, -inf or nan by the sign of n
Norm(n, d) ==
    IF d = 0 THEN <<Sgn(n), 0>>
    ELSE LET g == GCD(Abs(n), Abs(d))
         IN  <<(Sgn(d) * n) \div g, Abs(d) \div g>>

Q(n) == <<n, 1>>

NaN == <<0, 0>>

QNeg(a) == <<-a[1], a[2]>>

QAdd(a, b) ==
    IF a = NaN \/ b = NaN THEN NaN
    ELSE IF a[2] = 0 /\ b[2] = 0 THEN (IF a = b THEN a ELSE NaN)
    ELSE IF a[2] = 0 THEN a
    ELSE IF b[2] = 0 THEN b
    ELSE Norm(a[1] * b[2] + b[1] * a[2], a[2] * b[2])

QSub(a, b) == QAdd(a, QNeg(b))

QMul(a, b) == Norm(a[1] * b[1], a[2] * b[2])

QDiv(a, b) ==
    IF b[1] < 0 THEN Norm(-(a[1] * b[2]), a[2] * (-b[1]))
    ELSE Norm(a[1] * b[2], a[2] * b[1])

QAbs(a) == <<Abs(a[1]), a[2]>>

QLeq(a, b) == a[1] * b[2] <= b[1] * a[2]

\* the largest r in lo..hi with r * r <= n, by bisection (lo * lo <= n)
RECURSIVE FloorSqrt(_, _, _)
FloorSqrt(n, lo, hi) ==
    IF lo >= hi THEN lo
    ELSE LET mid == (lo + hi + 1) \div 2
         IN  IF mid <= n \div mid THEN FloorSqrt(n, mid, hi)
             ELSE FloorSqrt(n, lo, mid - 1)

\* the integer square root of a 32-bit n (46340 is the root of the largest)
ISqrt(n) == FloorSqrt(n, 0, IF n < 46340 THEN n ELSE 46340)

IsSquare(n) == n >= 0 /\ ISqrt(n) * ISqrt(n) = n

\* the square root: exact on the squares of rationals, and otherwise the
\* irrational root as a term; sqrt(+inf) = +inf, the root of a negative is nan
QSqrt(a) ==
    IF a[1] < 0 THEN NaN
    ELSE IF a[2] = 0 THEN a
    ELSE IF IsSquare(a[1]) /\ IsSquare(a[2]) THEN <<ISqrt(a[1]), ISqrt(a[2])>>
    ELSE [sqrt |-> a]

---------------------------------------------------------------------------
(* Arrays: numpy ndarrays, tensorflow tensors and python lists *)

\* the one element of a singleton set.  The({F(v) : v \in {e}}) is F(e) with
\* e evaluated once and named v
The(S) == CHOOSE v \in S : TRUE

Err(e) == [err |-> e]

IsErr(r) == "err" \in DOMAIN r

Arr(k, d) == [kind |-> k, data |-> d]

\* for a list of results in evaluation order: the first exception, if any
RECURSIVE FirstErr(_)
FirstErr(s) ==
    IF s = <<>> THEN <<>>
    ELSE IF IsErr(Head(s)) THEN <<Head(s)>>
    ELSE FirstErr(Tail(s))

ApplyOp(o, u, v) ==
    CASE o = "add"      -> QAdd(u, v)
      [] o = "subtract" -> QSub(u, v)
      [] o = "multiply" -> QMul(u, v)
      [] o = "divide"   -> QDiv(u, v)

\* np_ufunc with the shorter operand deciding the length (zip-like), never
\* raising
np_ufunc_truncating(o, a, b) ==
    LET n == Len(a.data)
        m == Len(b.data)
        k == IF n < m THEN n ELSE m
    IN  Arr("ndarray", [i \in 1..k |-> ApplyOp(o, a.data[i], b.data[i])])

\* a numpy binary ufunc (np.add, np.subtract, np.multiply, np.divide) on two
\* one-dimensional operands: elementwise, a one-element operand broadcast
\* against the other, any other pair of lengths a ValueError
np_ufunc(o, a, b) ==
    LET n == Len(a.data)
        m == Len(b.data)
    IN  IF n = m
        THEN Arr("ndarray", [i \in 1..n |-> ApplyOp(o, a.data[i], b.data[i])])
        ELSE IF m = 1
        THEN Arr("ndarray", [i \in 1..n |-> ApplyOp(o, a.data[i], b.data[1])])
        ELSE IF n = 1
        THEN Arr("ndarray", [i \in 1..m |-> ApplyOp(o, a.data[1], b.data[i])])
        ELSE Err("ValueError")

\* array (o) python scalar, by the array's own operator: a list has none
array_scalar(o, a, k) ==
    IF a.kind = "list" THEN Err("TypeError")
    ELSE Arr(a.kind, [i \in 1..Len(a.data) |-> ApplyOp(o, a.data[i], k)])

\* np.concatenate([a, b], axis=0)
np_concatenate(a, b) == Arr("ndarray", a.data \o b.data)

\* tf.stack([x, y, z], axis=0): the three must have one shape
tf_stack(x, y, z) ==
    IF Len(x.data) = Len(y.data) /\ Len(y.data) = Len(z.data)
    THEN [kind |-> "tensor", rows |-> <<x.data, y.data, z.data>>]
    ELSE Err("InvalidArgumentError")

Sum3(a, b, c) == QAdd(QAdd(a, b), c)

\* np.matmul(m, M) of a 3x3 matrix with a 3xN matrix
np_matmul(m, M) ==
    LET n == Len(M.rows[1])
    IN  [kind |-> "ndarray",
         rows |-> [r \in 1..3 |->
                    [j \in 1..n |->
                       Sum3(QMul(m[r][1], M.rows[1][j]),
                            QMul(m[r][2], M.rows[2][j]),
                            QMul(m[r][3], M.rows[3][j]))]]]

\* row i of a matrix, m[i]
Row(M, i) == Arr(M.kind, M.rows[i])

---------------------------------------------------------------------------
(* Cartesian3 *)

\* the methods and static methods class Cartesian3 defines
Cartesian3_attrs ==
    {"__init__", "fmap", "hmap", "op_zip", "from_xyz", "from_tuple3s",
     "from_matrix", "local_pos_from_hits", "pos_from_hits", "source_from_hits",
     "__repr__", "__add__", "__sub__", "__mul__", "__truediv__", "divide",
     "move", "concat", "rotate_ypr", "left_matmul", "distance_to", "to_matrix",
     "to_tensor", "to_spherical", "to_plotly", "to_plotly_as_mesh3d", "view"}

\* Cartesian3(x, y, z): stores the three components as given
Cartesian3(x, y, z) == [cls |-> "Cartesian3", x |-> x, y |-> y, z |-> z]

\* the instance of three computed components, or the exception the first of
\* them raised
NewCartesian3(fx, fy, fz) ==
    IF IsErr(fx) THEN fx
    ELSE IF IsErr(fy) THEN fy
    ELSE IF IsErr(fz) THEN fz
    ELSE Cartesian3(fx, fy, fz)

\* np.array(an_array, dtype=np.float32) unless it is an ndarray already
convert_type_if_not_nparray(an_array) ==
    IF an_array.kind # "ndarray"
    THEN Arr("ndarray", an_array.data)
    ELSE an_array

\* func(an_array) for the functions this module hands to fmap; a lambda is
\* the record of its name and of the values it closes over
call(func, an_array) ==
    CASE func.fn = "_convert_type_if_not_nparray" ->
             convert_type_if_not_nparray(an_array)
      [] func.fn = "mul_num" ->
             Arr("ndarray", [i \in 1..Len(an_array.data) |->
                               QMul(an_array.data[i], func.op_num)])
      [] func.fn = "div_seg_length" ->
             IF IsErr(func.seg_length) THEN func.seg_length
             ELSE np_ufunc("divide", an_array, func.seg_length)

\* self.fmap(func): a new instance of func(self.x), func(self.y), func(self.z)
fmap(self, func) ==
    The({ The({ NewCartesian3(fx, fy, fz) :
                  fx \in {call(f, s.x)},
                  fy \in {call(f, s.y)},
                  fz \in {call(f, s.z)} }) :
          s \in {self}, f \in {func} })

from_xyz(x, y, z) ==
    fmap(Cartesian3(x, y, z), [fn |-> "_convert_type_if_not_nparray"])

\* self.op_zip(other, op), op a numpy binary ufunc
op_zip(self, other, o) ==
    The({ The({ IF IsErr(NewCartesian3(rx, ry, rz))
                THEN NewCartesian3(rx, ry, rz)
                ELSE from_xyz(rx, ry, rz) :
                  rx \in {np_ufunc(o, s.x, t.x)},
                  ry \in {np_ufunc(o, s.y, t.y)},
                  rz \in {np_ufunc(o, s.z, t.z)} }) :
          s \in {self}, t \in {other} })

from_matrix(m) == from_xyz(Row(m, 1), Row(m, 2), Row(m, 3))

add(self, other) == op_zip(self, other, "add")

sub(self, other) == op_zip(self, other, "subtract")

\* self * op_num
mul(self, op_num) == fmap(self, [fn |-> "mul_num", op_num |-> op_num])

\* self / other, other a scalar
truediv(self, other) ==
    The({ The({ NewCartesian3(dx, dy, dz) :
                  dx \in {array_scalar("divide", s.x, other)},
                  dy \in {array_scalar("divide", s.y, other)},
                  dz \in {array_scalar("divide", s.z, other)} }) :
          s \in {self} })

divide(self, other) == op_zip(self, other, "divide")

\* self.move(by_vector), by_vector three scalars
move(self, by_vector) ==
    The({ The({ NewCartesian3(mx, my, mz) :
                  mx \in {array_scalar("add", s.x, by_vector[1])},
                  my \in {array_scalar("add", s.y, by_vector[2])},
                  mz \in {array_scalar("add", s.z, by_vector[3])} }) :
          s \in {self} })

\* concat with other's points first
concat_swapped(self, other) ==
    from_xyz(np_concatenate(other.x, self.x),
             np_concatenate(other.y, self.y),
             np_concatenate(other.z, self.z))

concat(self, other) ==
    from_xyz(np_concatenate(self.x, other.x),
             np_concatenate(self.y, other.y),
             np_concatenate(self.z, other.z))

to_matrix(self) == tf_stack(self.x, self.y, self.z)

to_tensor(self) == tf_stack(self.x, self.y, self.z)

\* Cartesian3.from_matrix(np.matmul(m, self.to_matrix()))
left_matmul(self, m) ==
    The({ IF IsErr(s) THEN s
          ELSE The({ IF IsErr(M) THEN M
                     ELSE The({ from_matrix(result) :
                                result \in {np_matmul(m, M)} }) :
                     M \in {to_matrix(s)} }) :
          s \in {self} })

\* cosine and sine of `turns` quarter turns
CosQ(turns) == Q(<<1, 0, -1, 0>>[(turns % 4) + 1])

SinQ(turns) == Q(<<0, 1, 0, -1>>[(turns % 4) + 1])

rotation_matrix_x(angle) ==
    << <<Q(1), Q(0),        Q(0)>>,
       <<Q(0), CosQ(angle), QNeg(SinQ(angle))>>,
       <<Q(0), SinQ(angle), CosQ(angle)>> >>

rotation_matrix_y(angle) ==
    << <<CosQ(angle),       Q(0), SinQ(angle)>>,
       <<Q(0),              Q(1), Q(0)>>,
       <<QNeg(SinQ(angle)), Q(0), CosQ(angle)>> >>

rotation_matrix_z(angle) ==
    << <<CosQ(angle), QNeg(SinQ(angle)), Q(0)>>,
       <<SinQ(angle), CosQ(angle),       Q(0)>>,
       <<Q(0),        Q(0),              Q(1)>> >>

\* rotate_ypr with the axis order reversed: Z first, then Y, then X
rotate_ypr_zyx(self, rv_ypr) ==
    left_matmul(
        left_matmul(
            left_matmul(self, rotation_matrix_z(rv_ypr[3])),
            rotation_matrix_y(rv_ypr[2])),
        rotation_matrix_x(rv_ypr[1]))

\* self.rotate_ypr(rv_ypr), rv_ypr three angles in quarter turns
rotate_ypr(self, rv_ypr) ==
    left_matmul(
        left_matmul(
            left_matmul(self, rotation_matrix_x(rv_ypr[1])),
            rotation_matrix_y(rv_ypr[2])),
        rotation_matrix_z(rv_ypr[3]))

\* tf.sqrt(tf.reduce_sum(tf.square(t), axis=0)) of a 3xN tensor
tf_norm_axis0(t) ==
    Arr("tensor",
        [j \in 1..Len(t.rows[1]) |->
           QSqrt(Sum3(QMul(t.rows[1][j], t.rows[1][j]),
                      QMul(t.rows[2][j], t.rows[2][j]),
                      QMul(t.rows[3][j], t.rows[3][j])))])

\* self.distance_to(other): one distance per pair of points
distance_to(self, other) ==
    The({ IF IsErr(diff) THEN diff
          ELSE The({ IF IsErr(t) THEN t ELSE tf_norm_axis0(t) :
                     t \in {to_tensor(diff)} }) :
          diff \in {sub(self, other)} })

\* self.to_spherical(): r, theta and phi per point; a square root is taken by
\* QSqrt, and atan2(a, b) is kept as a term of its two arguments
to_spherical(self) ==
    IF ~(/\ Len(self.x.data) = Len(self.y.data)
         /\ Len(self.y.data) = Len(self.z.data))
    THEN Err("InvalidArgumentError")
    ELSE LET n == Len(self.x.data)
             sq(a, i) == QMul(a.data[i], a.data[i])
         IN  [cls |-> "Spherical",
              r |-> Arr("tensor",
                     [i \in 1..n |->
                        QSqrt(Sum3(sq(self.x, i), sq(self.y, i), sq(self.z, i)))]),
              theta |-> Arr("tensor",
                     [i \in 1..n |-> [atan2 |-> <<self.y.data[i], self.x.data[i]>>]]),
              phi |-> Arr("tensor",
                     [i \in 1..n |->
                        [atan2 |-> <<QSqrt(QAdd(sq(self.x, i), sq(self.y, i))),
                                     self.z.data[i]>>]])]

---------------------------------------------------------------------------
(* Segment *)

Segment(fst, snd) == [cls |-> "Segment", fst |-> fst, snd |-> snd]

seg_length(self) == distance_to(self.fst, self.snd)

\* direct_vector pointing the other way, from fst toward snd
direct_vector_reversed(self) ==
    The({ IF IsErr(d) THEN d
          ELSE fmap(d, [fn |-> "div_seg_length", seg_length |-> seg_length(self)]) :
          d \in {sub(self.snd, self.fst)} })

\* (self.fst - self.snd).fmap(lambda i: i / self.seg_length().numpy())
direct_vector(self) ==
    The({ IF IsErr(d) THEN d
          ELSE fmap(d, [fn |-> "div_seg_length", seg_length |-> seg_length(self)]) :
          d \in {sub(self.fst, self.snd)} })

\* (self.fst + self.snd) / 2
middle_point(self) ==
    The({ IF IsErr(t) THEN t ELSE truediv(t, Q(2)) :
          t \in {add(self.fst, self.snd)} })

---------------------------------------------------------------------------
(* Surface *)

Surface(vertices) == [cls |-> "Surface", vertices |-> vertices]

\* Surface.from_xy_size(x_length, y_length)
Surface_from_xy_size(x_length, y_length) ==
    LET hx == QDiv(x_length, Q(2))
        hy == QDiv(y_length, Q(2))
    IN  Surface(Cartesian3(
            Arr("tensor", <<hx, hx, QNeg(hx), QNeg(hx)>>),
            Arr("tensor", <<hy, QNeg(hy), hy, QNeg(hy)>>),
            Arr("tensor", <<Q(0), Q(0), Q(0), Q(0)>>)))

\* self.move(move_vector): Surface(self.vertices + Cartesian3.from_tuple(...)).
\* Looking up an attribute the class does not define raises AttributeError;
\* the source defines no behaviour for any other case.
Surface_move(self, move_vector) ==
    The({ IF IsErr(s) THEN s
          ELSE CASE "from_tuple" \notin Cartesian3_attrs -> Err("AttributeError") :
          s \in {self} })

Surface_rotate_ypr(self, rv_ypr) ==
    The({ IF IsErr(s) THEN s
          ELSE The({ IF IsErr(v) THEN v ELSE Surface(v) :
                     v \in {rotate_ypr(s.vertices, rv_ypr)} }) :
          s \in {self} })

---------------------------------------------------------------------------
(* Box *)

Box(surface) == [cls |-> "Box", surface |-> surface]

\* the Box of a list of computed faces, or the exception the first of them
\* raised
NewBox(faces) ==
    IF FirstErr(faces) # <<>> THEN FirstErr(faces)[1] ELSE Box(faces)

\* Box.from_size(x, y, z): the six faces, built in this order; np.pi / 2 is
\* one quarter turn
Box_from_size(x, y, z) ==
    LET hx == QDiv(x, Q(2))
        hy == QDiv(y, Q(2))
        hz == QDiv(z, Q(2))
    IN  The({ NewBox(faces) : faces \in {
          << Surface_move(Surface_from_xy_size(x, y), <<Q(0), Q(0), hz>>),
             Surface_move(Surface_from_xy_size(x, y), <<Q(0), Q(0), QNeg(hz)>>),
             Surface_move(
                 Surface_rotate_ypr(Surface_from_xy_size(x, z), <<1, 0, 0>>),
                 <<Q(0), hy, Q(0)>>),
             Surface_move(
                 Surface_rotate_ypr(Surface_from_xy_size(x, z), <<1, 0, 0>>),
                 <<Q(0), QNeg(hy), Q(0)>>),
             Surface_move(
                 Surface_rotate_ypr(
                     Surface_rotate_ypr(Surface_from_xy_size(y, z), <<0, 0, 1>>),
                     <<0, 1, 0>>),
                 <<hx, Q(0), Q(0)>>),
             Surface_move(
                 Surface_rotate_ypr(
                     Surface_rotate_ypr(Surface_from_xy_size(y, z), <<0, 0, 1>>),
                     <<0, 1, 0>>),
                 <<QNeg(hx), Q(0), Q(0)>>) >> } })

\* tf.split(value, num, axis=0): num equal parts, or an error when the length
\* is no multiple of num
tf_split(value, num) ==
    LET k == Len(value.data) \div num
    IN  IF Len(value.data) % num # 0 THEN Err("InvalidArgumentError")
        ELSE [parts |-> [i \in 1..num |->
                  Arr("tensor", SubSeq(value.data, (i - 1) * k + 1, i * k))]]

\* the Surfaces of the zipped parts of x, y and z, as a Box
ZipSurfaces(num, sx, sy, sz) ==
    IF IsErr(sx) THEN sx
    ELSE IF IsErr(sy) THEN sy
    ELSE IF IsErr(sz) THEN sz
    ELSE Box([i \in 1..num |->
                Surface(Cartesian3(sx.parts[i], sy.parts[i], sz.parts[i]))])

\* from_vertices_of_surface cutting the vertices into four groups: surfaces
\* of six vertices
Box_from_vertices_of_surface_by4(vertices) ==
    The({ IF IsErr(v) THEN v
          ELSE The({ ZipSurfaces(4, sx, sy, sz) :
                     sx \in {tf_split(v.x, 4)},
                     sy \in {tf_split(v.y, 4)},
                     sz \in {tf_split(v.z, 4)} }) :
          v \in {vertices} })

\* Box.from_vertices_of_surface(vertices): six Surfaces from the sixths of
\* vertices.x, vertices.y and vertices.z, zipped
Box_from_vertices_of_surface(vertices) ==
    The({ IF IsErr(v) THEN v
          ELSE The({ ZipSurfaces(6, sx, sy, sz) :
                     sx \in {tf_split(v.x, 6)},
                     sy \in {tf_split(v.y, 6)},
                     sz \in {tf_split(v.z, 6)} }) :
          v \in {vertices} })

RECURSIVE Flatten(_)
Flatten(ss) == IF ss = <<>> THEN <<>> ELSE Head(ss) \o Flatten(Tail(ss))

\* tf.concat(tensors, axis=1) of 3xN matrices
tf_concat(tensors) ==
    [kind |-> "tensor",
     rows |-> [r \in 1..3 |->
                 Flatten([i \in 1..Len(tensors) |-> tensors[i].rows[r]])]]

\* self.vertices: the faces' vertices, one Cartesian3, in face order
Box_vertices(self) ==
    The({ IF FirstErr(ts) # <<>> THEN FirstErr(ts)[1]
          ELSE The({ from_matrix(m) : m \in {tf_concat(ts)} }) :
          ts \in {[i \in 1..Len(self.surface) |->
                     to_tensor(self.surface[i].vertices)]} })

\* self.move(move_vector):
\* Box.from_vertices_of_surface(self.vertices + Cartesian3.from_tuple(...))
Box_move(self, move_vector) ==
    The({ IF IsErr(v) THEN v
          ELSE CASE "from_tuple" \notin Cartesian3_attrs -> Err("AttributeError") :
          v \in {Box_vertices(self)} })

Box_rotate_ypr(self, rv_ypr) ==
    The({ IF IsErr(v) THEN v
          ELSE Box_from_vertices_of_surface(rotate_ypr(v, rv_ypr)) :
          v \in {Box_vertices(self)} })

---------------------------------------------------------------------------
(* Inputs *)

SeqsUpTo(S, lo, hi) == UNION {[1..n -> S] : n \in lo..hi}

\* a batch of points, given as integer triples, as a Cartesian3 of ndarrays
BatchOf(ps) ==
    Cartesian3(Arr("ndarray", [i \in 1..Len(ps) |-> Q(ps[i][1])]),
               Arr("ndarray", [i \in 1..Len(ps) |-> Q(ps[i][2])]),
               Arr("ndarray", [i \in 1..Len(ps) |-> Q(ps[i][3])]))

PointPool == {<<0, 0, 0>>, <<1, 0, 0>>, <<1, 2, 3>>, <<1, 1, -1>>}

Batches == {BatchOf(ps) : ps \in SeqsUpTo(PointPool, 0, MaxLen)}

RawArrays(k) == {Arr(k, d) : d \in SeqsUpTo({Q(0), Q(1)}, 0, MaxLen)}

Scalars == {Q(0), Q(2), Q(-1)}

Offsets == {<<Q(1), Q(0), Q(0)>>, <<Q(0), Q(-2), Q(3)>>}

QuarterTurns == 0..3

Angles == QuarterTurns \X QuarterTurns \X QuarterTurns

Dims == {Q(n) : n \in 1..MaxDim}

NoResult == [none |-> TRUE]

PointInputs ==
         {[kind |-> "xyz", x |-> x, y |-> y, z |-> z] :
            x \in RawArrays("list"), y \in RawArrays("list"), z \in RawArrays("list")}
    \cup {[kind |-> "xyz", x |-> x, y |-> y, z |-> z] :
            x \in RawArrays("ndarray"), y \in RawArrays("ndarray"),
            z \in RawArrays("ndarray")}
    \cup {[kind |-> "pair", p |-> p, q |-> q] : p \in Batches, q \in Batches}
    \cup {[kind |-> "scalar", p |-> p, k |-> k] : p \in Batches, k \in Scalars}
    \cup {[kind |-> "offset", p |-> p, v |-> v] : p \in Batches, v \in Offsets}
    \cup {[kind |-> "angles", p |-> p, a |-> a] : p \in Batches, a \in Angles}

---------------------------------------------------------------------------
(* Calls on Cartesian3: each applies one operation to the inputs drawn *)

Idle == /\ dbpc = "unused" /\ uses = <<>>
        /\ arrays = <<>> /\ objs = <<>> /\ roots = {} /\ last = NoResult

Rest == <<dbpc, uses, arrays, objs, roots, last>>

Returns(name, value) ==
    /\ op = "init"
    /\ op' = name
    /\ res' = value
    /\ UNCHANGED <<args, Rest>>

CallInit ==
    /\ args.kind = "xyz"
    /\ Returns("Cartesian3", Cartesian3(args.x, args.y, args.z))

CallFromXyz ==
    /\ args.kind = "xyz"
    /\ Returns("from_xyz", from_xyz(args.x, args.y, args.z))

CallAdd ==
    /\ args.kind = "pair"
    /\ Returns("__add__", add(args.p, args.q))

CallSub ==
    /\ args.kind = "pair"
    /\ Returns("__sub__", sub(args.p, args.q))

CallOpZip ==
    /\ args.kind = "pair"
    /\ Returns("op_zip", op_zip(args.p, args.q, "multiply"))

CallDivide ==
    /\ args.kind = "pair"
    /\ Returns("divide", divide(args.p, args.q))

CallConcat ==
    /\ args.kind = "pair"
    /\ Returns("concat", concat(args.p, args.q))

CallMul ==
    /\ args.kind = "scalar"
    /\ Returns("__mul__", mul(args.p, args.k))

CallTruediv ==
    /\ args.kind = "scalar"
    /\ Returns("__truediv__", truediv(args.p, args.k))

CallMove ==
    /\ args.kind = "offset"
    /\ Returns("move", move(args.p, args.v))

CallRotateYpr ==
    /\ args.kind = "angles"
    /\ Returns("rotate_ypr", rotate_ypr(args.p, args.a))

PointInit == /\ op = "init" /\ res = NoResult /\ args \in PointInputs /\ Idle

PointNext ==
    \/ CallInit \/ CallFromXyz
    \/ CallAdd \/ CallSub \/ CallOpZip \/ CallDivide \/ CallConcat
    \/ CallMul \/ CallTruediv \/ CallMove \/ CallRotateYpr

SpecPoint == PointInit /\ [][PointNext]_vars

---------------------------------------------------------------------------
(* Inputs and calls on Surface, Box and Segment *)

\* rectangles as from_xy_size and rotate_ypr deliver them
Surfaces ==
    {Surface_rotate_ypr(Surface_from_xy_size(x, y), r) :
        x \in Dims, y \in Dims, r \in {<<0, 0, 0>>, <<1, 0, 0>>, <<0, 1, 1>>}}

\* a Box of six four-vertex Surfaces, built with the Box constructor from
\* rectangles turned by Surface.rotate_ypr and shifted by Cartesian3.move
BoxOf(x, y, z) ==
    LET hx == QDiv(x, Q(2))
        hy == QDiv(y, Q(2))
        hz == QDiv(z, Q(2))
    IN  The({ Box(<< Surface(move(xy, <<Q(0), Q(0), hz>>)),
                     Surface(move(xy, <<Q(0), Q(0), QNeg(hz)>>)),
                     Surface(move(xz, <<Q(0), hy, Q(0)>>)),
                     Surface(move(xz, <<Q(0), QNeg(hy), Q(0)>>)),
                     Surface(move(yz, <<hx, Q(0), Q(0)>>)),
                     Surface(move(yz, <<QNeg(hx), Q(0), Q(0)>>)) >>) :
          xy \in {Surface_from_xy_size(x, y).vertices},
          xz \in {Surface_rotate_ypr(Surface_from_xy_size(x, z),
                                     <<1, 0, 0>>).vertices},
          yz \in {Surface_rotate_ypr(
                      Surface_rotate_ypr(Surface_from_xy_size(y, z), <<0, 0, 1>>),
                      <<0, 1, 0>>).vertices} })

Boxes == {BoxOf(x, y, z) : x \in Dims, y \in Dims, z \in Dims}

SegPool == {<<0, 0, 0>>, <<0, 0, 10>>, <<3, 4, 0>>, <<0, 4, 0>>}

Dist2(u, v) ==
      (u[1] - v[1]) * (u[1] - v[1])
    + (u[2] - v[2]) * (u[2] - v[2])
    + (u[3] - v[3]) * (u[3] - v[3])

\* batches of segments, one endpoint pair per segment, whose lengths are
\* whole numbers
Segments ==
    UNION {
      {Segment(BatchOf(f), BatchOf(s)) :
         <<f, s>> \in {fs \in [1..n -> SegPool] \X [1..n -> SegPool] :
                         \A j \in 1..n : IsSquare(Dist2(fs[1][j], fs[2][j]))}} :
      n \in 1..MaxLen}

ShapeInputs ==
         {[kind |-> "rect", x |-> x, y |-> y] : x \in Dims, y \in Dims}
    \cup {[kind |-> "dims", x |-> x, y |-> y, z |-> z] :
            x \in Dims, y \in Dims, z \in Dims}
    \cup {[kind |-> "surface_offset", s |-> s, v |-> v] :
            s \in Surfaces, v \in Offsets}
    \cup {[kind |-> "surface_angles", s |-> s, a |-> a] :
            s \in Surfaces, a \in Angles}
    \cup {[kind |-> "box", b |-> b] : b \in Boxes}
    \cup {[kind |-> "box_offset", b |-> b, v |-> v] : b \in Boxes, v \in Offsets}
    \cup {[kind |-> "box_angles", b |-> b, a |-> a] : b \in Boxes, a \in Angles}
    \cup {[kind |-> "segment", seg |-> seg] : seg \in Segments}

CallSurfaceFromXySize ==
    /\ args.kind = "rect"
    /\ Returns("Surface.from_xy_size", Surface_from_xy_size(args.x, args.y))

CallSurfaceMove ==
    /\ args.kind = "surface_offset"
    /\ Returns("Surface.move", Surface_move(args.s, args.v))

CallSurfaceRotateYpr ==
    /\ args.kind = "surface_angles"
    /\ Returns("Surface.rotate_ypr", Surface_rotate_ypr(args.s, args.a))

CallBoxFromSize ==
    /\ args.kind = "dims"
    /\ Returns("Box.from_size", Box_from_size(args.x, args.y, args.z))

CallBoxVertices ==
    /\ args.kind = "box"
    /\ Returns("Box.vertices", Box_vertices(args.b))

\* Box.from_vertices_of_surface(b.vertices)
CallBoxFromVertices ==
    /\ args.kind = "box"
    /\ Returns("Box.from_vertices_of_surface",
               Box_from_vertices_of_surface(Box_vertices(args.b)))

CallBoxMove ==
    /\ args.kind = "box_offset"
    /\ Returns("Box.move", Box_move(args.b, args.v))

CallBoxRotateYpr ==
    /\ args.kind = "box_angles"
    /\ Returns("Box.rotate_ypr", Box_rotate_ypr(args.b, args.a))

CallSegLength ==
    /\ args.kind = "segment"
    /\ Returns("seg_length", seg_length(args.seg))

CallDirectVector ==
    /\ args.kind = "segment"
    /\ Returns("direct_vector", direct_vector(args.seg))

CallMiddlePoint ==
    /\ args.kind = "segment"
    /\ Returns("middle_point", middle_point(args.seg))

ShapeInit == /\ op = "init" /\ res = NoResult /\ args \in ShapeInputs /\ Idle

ShapeNext ==
    \/ CallSurfaceFromXySize \/ CallSurfaceMove \/ CallSurfaceRotateYpr
    \/ CallBoxFromSize \/ CallBoxVertices \/ CallBoxFromVertices
    \/ CallBoxMove \/ CallBoxRotateYpr
    \/ CallSegLength \/ CallDirectVector \/ CallMiddlePoint

SpecShape == ShapeInit /\ [][ShapeNext]_vars

---------------------------------------------------------------------------
(* Reading results *)

NPoints(c) == Len(c.x.data)

\* point j of a Cartesian3, as a triple of numbers
PointAt(c, j) == <<c.x.data[j], c.y.data[j], c.z.data[j]>>

QPoint(t) == <<Q(t[1]), Q(t[2]), Q(t[3])>>

\* point j of a Cartesian3 of whole numbers, as a triple of integers
IntPointAt(c, j) == <<c.x.data[j][1], c.y.data[j][1], c.z.data[j][1]>>

EqualLengths(c) ==
    /\ Len(c.x.data) = Len(c.y.data)
    /\ Len(c.y.data) = Len(c.z.data)

\* one quarter turn about each axis, on a point
TurnX(t) == <<t[1], QNeg(t[3]), t[2]>>

TurnY(t) == <<t[3], t[2], QNeg(t[1])>>

TurnZ(t) == <<QNeg(t[2]), t[1], t[3]>>

RECURSIVE Turns(_, _, _)
Turns(axis, k, t) ==
    IF k = 0 THEN t
    ELSE Turns(axis, k - 1,
               CASE axis = "x" -> TurnX(t)
                 [] axis = "y" -> TurnY(t)
                 [] axis = "z" -> TurnZ(t))

\* X first, then Y, then Z
TurnsXYZ(a, t) == Turns("z", a[3], Turns("y", a[2], Turns("x", a[1], t)))

---------------------------------------------------------------------------
(* Claims about Cartesian3, checked under SpecPoint *)

\* C4: rotate_ypr([a, b, c]) turns every point about X by a, the result about
\* Y by b, and that result about Z by c; and the order shows: on a batch
\* holding the point (1,0,0), rotate_ypr([pi/2, 0, pi/2]) differs from
\* rotate_ypr([0, 0, pi/2]) followed by rotate_ypr([pi/2, 0, 0]).
C4_RotateOrderXYZ ==
    op = "rotate_ypr" =>
        /\ ~IsErr(res)
        /\ EqualLengths(res)
        /\ NPoints(res) = NPoints(args.p)
        /\ \A j \in 1..NPoints(args.p) :
              PointAt(res, j) = TurnsXYZ(args.a, PointAt(args.p, j))
        /\ (/\ args.a = <<1, 0, 1>>
            /\ \E j \in 1..NPoints(args.p) : IntPointAt(args.p, j) = <<1, 0, 0>>)
           => res # rotate_ypr(rotate_ypr(args.p, <<0, 0, 1>>), <<1, 0, 0>>)

C4_Witness ==
    /\ op = "rotate_ypr"
    /\ args.a = <<1, 0, 1>>
    /\ NPoints(args.p) = 2
    /\ IntPointAt(args.p, 1) = <<1, 0, 0>>
    /\ IntPointAt(args.p, 2) = <<1, 2, 3>>
    /\ PointAt(res, 2) = QPoint(<<3, 1, 2>>)

BinaryOps == {"__add__", "__sub__", "op_zip"}

IntOp(name, u, v) ==
    CASE name = "__add__" -> u + v
      [] name = "__sub__" -> u - v
      [] name = "op_zip"  -> u * v

C6_ComponentsOfOneLength ==
    /\ (/\ op \in {"Cartesian3", "from_xyz"}
        /\ ~(/\ Len(args.x.data) = Len(args.y.data)
             /\ Len(args.y.data) = Len(args.z.data)))
       => IsErr(res)
    /\ (op # "init" /\ ~IsErr(res)) => EqualLengths(res)

\* C8: a.concat(b) has N + M points on each of x, y and z: a's points first,
\* then b's, each in their order; N and M need not be equal.
C8_ConcatAppends ==
    op = "concat" =>
        LET n == NPoints(args.p)
            m == NPoints(args.q)
        IN  /\ ~IsErr(res)
            /\ Len(res.x.data) = n + m
            /\ Len(res.y.data) = n + m
            /\ Len(res.z.data) = n + m
            /\ \A i \in 1..n : PointAt(res, i) = PointAt(args.p, i)
            /\ \A i \in (n + 1)..(n + m) : PointAt(res, i) = PointAt(args.q, i - n)

C8_Witness ==
    /\ op = "concat"
    /\ NPoints(args.p) = 1
    /\ NPoints(args.q) = 2
    /\ IntPointAt(res, 1) = <<1, 2, 3>>
    /\ IntPointAt(res, 2) = <<0, 0, 0>>
    /\ IntPointAt(res, 3) = <<1, 1, -1>>

---------------------------------------------------------------------------
(* Claims about Surface, Box and Segment, checked under SpecShape *)

QShift(t, v) == <<QAdd(t[1], v[1]), QAdd(t[2], v[2]), QAdd(t[3], v[3])>>

\* the points of all faces of a Box, as <<face, vertex>> pairs
BoxPoints(b) ==
    {<<i, j>> : i \in 1..Len(b.surface), j \in 1..4}

BoxPoint(b, ij) == PointAt(b.surface[ij[1]].vertices, ij[2])

FourVertices(s) ==
    /\ Len(s.vertices.x.data) = 4
    /\ Len(s.vertices.y.data) = 4
    /\ Len(s.vertices.z.data) = 4

\* the largest absolute coordinate k among the points of b is h
MaxExtent(b, k, h) ==
    /\ \A ij \in BoxPoints(b) : QLeq(QAbs(BoxPoint(b, ij)[k]), h)
    /\ \E ij \in BoxPoints(b) : QAbs(BoxPoint(b, ij)[k]) = h

\* all four vertices of face i of b have coordinate k equal to h
FaceAt(b, i, k, h) ==
    \A j \in 1..4 : PointAt(b.surface[i].vertices, j)[k] = h

\* a Box of the dimensions x, y, z about the origin: six four-vertex faces,
\* 24 vertices, extents x/2, y/2, z/2, faces 1/2 at z = +-z/2, 3/4 at
\* y = +-y/2, 5/6 at x = +-x/2
IsBoxOfSize(b, x, y, z) ==
    /\ ~IsErr(b)
    /\ Len(b.surface) = 6
    /\ \A i \in 1..6 : FourVertices(b.surface[i])
    /\ ~IsErr(Box_vertices(b))
    /\ NPoints(Box_vertices(b)) = 24
    /\ MaxExtent(b, 1, QDiv(x, Q(2)))
    /\ MaxExtent(b, 2, QDiv(y, Q(2)))
    /\ MaxExtent(b, 3, QDiv(z, Q(2)))
    /\ FaceAt(b, 1, 3, QDiv(z, Q(2)))
    /\ FaceAt(b, 2, 3, QNeg(QDiv(z, Q(2))))
    /\ FaceAt(b, 3, 2, QDiv(y, Q(2)))
    /\ FaceAt(b, 4, 2, QNeg(QDiv(y, Q(2))))
    /\ FaceAt(b, 5, 1, QDiv(x, Q(2)))
    /\ FaceAt(b, 6, 1, QNeg(QDiv(x, Q(2))))

\* C1 as stated: for all positive x, y, z, Box.from_size(x, y, z) returns,
\* without raising, a Box of six Surfaces and 24 vertices whose extents are
\* x/2, y/2, z/2 and whose faces lie at z = +-z/2, y = +-y/2, x = +-x/2.
C1_FromSizeReturnsBox ==
    op = "Box.from_size" => IsBoxOfSize(res, args.x, args.y, args.z)

\* C2 as stated: s.move(v) returns a Surface of s's four vertices each
\* shifted by v, and b.move(v) a Box of six four-vertex Surfaces, in the
\* face order of b, every vertex shifted by v; neither call raises.
C2_MoveShiftsEveryVertex ==
    /\ op = "Surface.move" =>
          /\ ~IsErr(res)
          /\ FourVertices(res)
          /\ \A j \in 1..4 :
                PointAt(res.vertices, j) = QShift(PointAt(args.s.vertices, j), args.v)
    /\ op = "Box.move" =>
          /\ ~IsErr(res)
          /\ Len(res.surface) = 6
          /\ \A i \in 1..6 : FourVertices(res.surface[i])
          /\ \A ij \in BoxPoints(res) :
                BoxPoint(res, ij) = QShift(BoxPoint(args.b, ij), args.v)

\* C3: b.rotate_ypr(a) is a Box of six Surfaces of four vertices, and vertex
\* j of face i of the result is the rotate_ypr(a) image of vertex j of face i
\* of b; re-chunking b.vertices itself gives back b, face by face.
C3_BoxRotateKeepsFaces ==
    /\ op = "Box.rotate_ypr" =>
          /\ ~IsErr(res)
          /\ Len(res.surface) = 6
          /\ \A i \in 1..6 :
                /\ FourVertices(res.surface[i])
                /\ \A j \in 1..4 :
                      /\ PointAt(res.surface[i].vertices, j) =
                           TurnsXYZ(args.a, PointAt(args.b.surface[i].vertices, j))
                      /\ PointAt(res.surface[i].vertices, j) =
                           PointAt(rotate_ypr(args.b.surface[i].vertices, args.a), j)
    /\ op = "Box.from_vertices_of_surface" =>
          /\ ~IsErr(res)
          /\ Len(res.surface) = 6
          /\ \A i \in 1..6 :
                /\ FourVertices(res.surface[i])
                /\ \A j \in 1..4 :
                      PointAt(res.surface[i].vertices, j) =
                        PointAt(args.b.surface[i].vertices, j)

C3_Witness ==
    /\ op = "Box.rotate_ypr"
    /\ args.a = <<1, 0, 0>>
    /\ Len(args.b.surface) = 6
    /\ PointAt(args.b.surface[1].vertices, 1) = <<<<1, 2>>, Q(1), <<3, 2>>>>
    /\ PointAt(args.b.surface[6].vertices, 4) = <<<<-1, 2>>, Q(-1), <<-3, 2>>>>
    /\ PointAt(res.surface[1].vertices, 1) = <<<<1, 2>>, <<-3, 2>>, Q(1)>>
    /\ PointAt(res.surface[6].vertices, 4) = <<<<-1, 2>>, <<3, 2>>, Q(-1)>>

SegPoints(seg) == 1..NPoints(seg.fst)

\* the whole-number length of segment j of a batch
IntLength(seg, j) ==
    ISqrt(Dist2(IntPointAt(seg.fst, j), IntPointAt(seg.snd, j)))

\* C9: for a Segment whose endpoints differ, seg_length() is the Euclidean
\* distance between fst and snd, one value per segment, and direct_vector()
\* is fst - snd with every component divided by the segment's own length, a
\* unit vector; for fst = (0,0,0), snd = (0,0,10) they are 10 and (0,0,-1).
C9_SegmentLengthAndDirection ==
    /\ op = "seg_length" =>
          /\ ~IsErr(res)
          /\ Len(res.data) = NPoints(args.seg.fst)
          /\ \A j \in SegPoints(args.seg) :
                /\ res.data[j][2] = 1
                /\ res.data[j][1] >= 0
                /\ res.data[j][1] * res.data[j][1] =
                     Dist2(IntPointAt(args.seg.fst, j), IntPointAt(args.seg.snd, j))
                /\ (/\ IntPointAt(args.seg.fst, j) = <<0, 0, 0>>
                    /\ IntPointAt(args.seg.snd, j) = <<0, 0, 10>>)
                   => res.data[j] = Q(10)
    /\ op = "direct_vector" =>
          /\ ~IsErr(res)
          /\ EqualLengths(res)
          /\ NPoints(res) = NPoints(args.seg.fst)
          /\ \A j \in SegPoints(args.seg) :
                LET f == IntPointAt(args.seg.fst, j)
                    t == IntPointAt(args.seg.snd, j)
                    u == PointAt(res, j)
                IN  /\ f # t =>
                         /\ \A k \in 1..3 :
                               /\ u[k][2] > 0
                               /\ u[k][1] * IntLength(args.seg, j) =
                                    (f[k] - t[k]) * u[k][2]
                         /\ Sum3(QMul(u[1], u[1]), QMul(u[2], u[2]),
                                 QMul(u[3], u[3])) = Q(1)
                    /\ (f = <<0, 0, 0>> /\ t = <<0, 0, 10>>)
                         => u = <<Q(0), Q(0), Q(-1)>>

C9_Witness ==
    /\ op = "direct_vector"
    /\ NPoints(args.seg.fst) = 2
    /\ IntPointAt(args.seg.fst, 1) = <<0, 0, 0>>
    /\ IntPointAt(args.seg.snd, 1) = <<0, 0, 10>>
    /\ IntPointAt(args.seg.fst, 2) = <<3, 4, 0>>
    /\ IntPointAt(args.seg.snd, 2) = <<0, 0, 0>>
    /\ PointAt(res, 1) = <<Q(0), Q(0), Q(-1)>>
    /\ PointAt(res, 2) = <<<<3, 5>>, <<4, 5>>, Q(0)>>

---------------------------------------------------------------------------
(* Database.cursor(): the context manager, used by a caller as               *)
(*     with Database().cursor() as (conn, cursor): <body>                    *)
(* one use after another.  Each use has a record of its connection and its   *)
(* cursor; `left` is how control left the context.                           *)

CurrentUse == Len(uses)

NoGeometry == UNCHANGED <<op, args, res, arrays, objs, roots, last>>

\* conn = psycopg2.connect(self.db_connection)
Connect ==
    /\ dbpc = "idle"
    /\ Len(uses) < MaxUses
    /\ uses' = Append(uses, [conn |-> "open", cursor |-> "none", left |-> "no"])
    /\ dbpc' = "connected"
    /\ NoGeometry

\* cursor = conn.cursor(); yield (conn, cursor): the body of the with block
\* starts
OpenCursorAndYield ==
    /\ dbpc = "connected"
    /\ uses' = [uses EXCEPT ![CurrentUse].cursor = "open"]
    /\ dbpc' = "body"
    /\ NoGeometry

\* the body completes: the generator is resumed after its yield
BodyCompletes ==
    /\ dbpc = "body"
    /\ dbpc' = "resumed"
    /\ UNCHANGED uses
    /\ NoGeometry

\* the body raises: the exception is thrown into the generator at its yield,
\* which no try statement encloses, so it leaves the generator and the with
\* statement at once
BodyRaises ==
    /\ dbpc = "body"
    /\ uses' = [uses EXCEPT ![CurrentUse].left = "raised"]
    /\ dbpc' = "idle"
    /\ NoGeometry

\* cursor.close()
CloseCursor ==
    /\ dbpc = "resumed"
    /\ uses' = [uses EXCEPT ![CurrentUse].cursor = "closed"]
    /\ dbpc' = "cursor_closed"
    /\ NoGeometry

\* conn.close(); the generator ends and control leaves the with statement
CloseConn ==
    /\ dbpc = "cursor_closed"
    /\ uses' = [uses EXCEPT ![CurrentUse].conn = "closed",
                            ![CurrentUse].left = "returned"]
    /\ dbpc' = "idle"
    /\ NoGeometry

CursorInit ==
    /\ dbpc = "idle" /\ uses = <<>>
    /\ op = "unused" /\ args = NoResult /\ res = NoResult
    /\ arrays = <<>> /\ objs = <<>> /\ roots = {} /\ last = NoResult

CursorNext ==
    \/ Connect \/ OpenCursorAndYield \/ BodyCompletes \/ BodyRaises
    \/ CloseCursor \/ CloseConn

SpecCursor == CursorInit /\ [][CursorNext]_vars

\* C7 as stated: for every use of Database.cursor(), whether the body of the
\* with block completes or raises, the cursor and the connection opened for
\* that use are both closed by the time control has left the context.
C7_ClosedOnEveryExit ==
    \A u \in 1..Len(uses) :
        uses[u].left # "no" =>
            /\ uses[u].cursor = "closed"
            /\ uses[u].conn = "closed"

---------------------------------------------------------------------------
(* The object store.  Arrays and objects are held by identity: an array is   *)
(* an entry of `arrays`, an object an entry of `objs` whose fields name      *)
(* arrays or other objects by their index.  A call reads its operands from   *)
(* the store and puts whatever it creates into the store.                    *)

Store == [arrays |-> arrays, objs |-> objs]

EmptyStore == [arrays |-> <<>>, objs |-> <<>>]

\* the value of the Cartesian3 / Surface / Box object o
Val(o) ==
    Cartesian3(arrays[objs[o].x], arrays[objs[o].y], arrays[objs[o].z])

SurfaceVal(o) == Surface(Val(objs[o].vertices))

BoxVal(o) ==
    Box([i \in 1..Len(objs[o].surface) |-> SurfaceVal(objs[o].surface[i])])

\* a new Cartesian3 of three new arrays
PutCartesian3(st, v) ==
    [arrays |-> st.arrays \o <<v.x, v.y, v.z>>,
     objs   |-> Append(st.objs, [cls |-> "Cartesian3",
                                 x |-> Len(st.arrays) + 1,
                                 y |-> Len(st.arrays) + 2,
                                 z |-> Len(st.arrays) + 3])]

\* a new Spherical of three new arrays
PutSpherical(st, v) ==
    [arrays |-> st.arrays \o <<v.r, v.theta, v.phi>>,
     objs   |-> Append(st.objs, [cls |-> "Spherical",
                                 r     |-> Len(st.arrays) + 1,
                                 theta |-> Len(st.arrays) + 2,
                                 phi   |-> Len(st.arrays) + 3])]

\* a new Surface of a new Cartesian3
PutSurface(st, v) ==
    The({ [arrays |-> t.arrays,
           objs   |-> Append(t.objs, [cls |-> "Surface", vertices |-> Len(t.objs)])] :
          t \in {PutCartesian3(st, v.vertices)} })

RECURSIVE PutSurfaces(_, _)
PutSurfaces(st, faces) ==
    IF faces = <<>> THEN st
    ELSE The({ PutSurfaces(t, Tail(faces)) : t \in {PutSurface(st, Head(faces))} })

\* a new Box of new Surfaces
PutBox(st, v) ==
    The({ [arrays |-> t.arrays,
           objs   |-> Append(t.objs,
                        [cls |-> "Box",
                         surface |-> [i \in 1..Len(v.surface) |->
                                        Len(st.objs) + 2 * i]])] :
          t \in {PutSurfaces(st, v.surface)} })

\* self.fmap(_convert_type_if_not_nparray) in the store: a component that is
\* an ndarray is handed on as it is, any other is copied into a new ndarray
PutConverted(st, o) ==
    LET comps == <<st.objs[o].x, st.objs[o].y, st.objs[o].z>>
        fresh == [k \in 1..3 |-> st.arrays[comps[k]].kind # "ndarray"]
        new   == SelectSeq(<<1, 2, 3>>, LAMBDA k : fresh[k])
        at(k) == IF fresh[k]
                 THEN Len(st.arrays)
                      + Len(SelectSeq(SubSeq(<<1, 2, 3>>, 1, k), LAMBDA j : fresh[j]))
                 ELSE comps[k]
    IN  [arrays |-> st.arrays \o
                      [n \in 1..Len(new) |->
                         convert_type_if_not_nparray(st.arrays[comps[new[n]]])],
         objs   |-> Append(st.objs, [cls |-> "Cartesian3",
                                     x |-> at(1), y |-> at(2), z |-> at(3)])]

NoPoints == UNCHANGED <<op, args, res, dbpc, uses>>

\* the call returns the object last put into the store st
Stored(name, recv, st) ==
    /\ arrays' = st.arrays
    /\ objs' = st.objs
    /\ roots' = roots \cup {Len(st.objs)}
    /\ last' = [call |-> name, recv |-> recv, n |-> last.n + 1,
                result |-> [obj |-> Len(st.objs)]]
    /\ NoPoints

\* the call raises
Raised(name, recv, e) ==
    /\ last' = [call |-> name, recv |-> recv, n |-> last.n + 1,
                raised |-> e.err]
    /\ UNCHANGED <<arrays, objs, roots>>
    /\ NoPoints

CanCall == last.n < MaxCalls

IsA(o, cls) == objs[o].cls = cls

Points3 == {o \in roots : IsA(o, "Cartesian3")}

\* a call that returns a Cartesian3 value v, or raises
ReturnsCartesian3(name, recv, value) ==
    \E v \in {value} :
        IF IsErr(v) THEN Raised(name, recv, v)
        ELSE Stored(name, recv, PutCartesian3(Store, v))

StoreFmap(i) ==
    /\ CanCall /\ i \in Points3
    /\ Stored("fmap", i, PutConverted(Store, i))

StoreAdd(i, j) ==
    /\ CanCall /\ i \in Points3 /\ j \in Points3
    /\ ReturnsCartesian3("__add__", i, add(Val(i), Val(j)))

StoreSub(i, j) ==
    /\ CanCall /\ i \in Points3 /\ j \in Points3
    /\ ReturnsCartesian3("__sub__", i, sub(Val(i), Val(j)))

StoreOpZip(i, j) ==
    /\ CanCall /\ i \in Points3 /\ j \in Points3
    /\ ReturnsCartesian3("op_zip", i, op_zip(Val(i), Val(j), "multiply"))

StoreMul(i, k) ==
    /\ CanCall /\ i \in Points3
    /\ ReturnsCartesian3("__mul__", i, mul(Val(i), k))

StoreTruediv(i, k) ==
    /\ CanCall /\ i \in Points3
    /\ ReturnsCartesian3("__truediv__", i, truediv(Val(i), k))

StoreDivide(i, j) ==
    /\ CanCall /\ i \in Points3 /\ j \in Points3
    /\ ReturnsCartesian3("divide", i, divide(Val(i), Val(j)))

\* move carried out on the operand itself: self.x += by_vector[0], ... and
\* self returned
StoreMoveInPlace(i, v) ==
    /\ CanCall /\ i \in Points3
    /\ \E m \in {move(Val(i), v)} :
          IF IsErr(m) THEN Raised("move", i, m)
          ELSE /\ arrays' = [a \in 1..Len(arrays) |->
                               IF a = objs[i].x THEN m.x
                               ELSE IF a = objs[i].y THEN m.y
                               ELSE IF a = objs[i].z THEN m.z
                               ELSE arrays[a]]
               /\ last' = [call |-> "move", recv |-> i, n |-> last.n + 1,
                           result |-> [obj |-> i]]
               /\ UNCHANGED <<objs, roots>>
               /\ NoPoints

StoreMove(i, v) ==
    /\ CanCall /\ i \in Points3
    /\ ReturnsCartesian3("move", i, move(Val(i), v))

StoreConcat(i, j) ==
    /\ CanCall /\ i \in Points3 /\ j \in Points3
    /\ ReturnsCartesian3("concat", i, concat(Val(i), Val(j)))

StoreRotateYpr(i, a) ==
    /\ CanCall /\ i \in Points3
    /\ ReturnsCartesian3("rotate_ypr", i, rotate_ypr(Val(i), a))

\* distance_to returns a tensor, not a Cartesian3
StoreDistanceTo(i, j) ==
    /\ CanCall /\ i \in Points3 /\ j \in Points3
    /\ \E d \in {distance_to(Val(i), Val(j))} :
          IF IsErr(d) THEN Raised("distance_to", i, d)
          ELSE /\ arrays' = Append(arrays, d)
               /\ last' = [call |-> "distance_to", recv |-> i, n |-> last.n + 1,
                           result |-> [arr |-> Len(arrays) + 1]]
               /\ UNCHANGED <<objs, roots>>
               /\ NoPoints

StoreToSpherical(i) ==
    /\ CanCall /\ i \in Points3
    /\ \E v \in {to_spherical(Val(i))} :
          IF IsErr(v) THEN Raised("to_spherical", i, v)
          ELSE Stored("to_spherical", i, PutSpherical(Store, v))

StoreSurfaceMove(i, v) ==
    /\ CanCall /\ i \in roots /\ IsA(i, "Surface")
    /\ \E m \in {Surface_move(SurfaceVal(i), v)} :
          IF IsErr(m) THEN Raised("Surface.move", i, m)
          ELSE Stored("Surface.move", i, PutSurface(Store, m))

StoreSurfaceRotateYpr(i, a) ==
    /\ CanCall /\ i \in roots /\ IsA(i, "Surface")
    /\ \E m \in {Surface_rotate_ypr(SurfaceVal(i), a)} :
          IF IsErr(m) THEN Raised("Surface.rotate_ypr", i, m)
          ELSE Stored("Surface.rotate_ypr", i, PutSurface(Store, m))

StoreBoxMove(i, v) ==
    /\ CanCall /\ i \in roots /\ IsA(i, "Box")
    /\ \E m \in {Box_move(BoxVal(i), v)} :
          IF IsErr(m) THEN Raised("Box.move", i, m)
          ELSE Stored("Box.move", i, PutBox(Store, m))

StoreBoxRotateYpr(i, a) ==
    /\ CanCall /\ i \in roots /\ IsA(i, "Box")
    /\ \E m \in {Box_rotate_ypr(BoxVal(i), a)} :
          IF IsErr(m) THEN Raised("Box.rotate_ypr", i, m)
          ELSE Stored("Box.rotate_ypr", i, PutBox(Store, m))

\* what the caller starts with: two Cartesian3, or a Surface, or a Box
StoreInputs ==
         {PutCartesian3(PutCartesian3(EmptyStore, p), q) :
            p \in {BatchOf(<<<<1, 2, 3>>, <<1, 0, 0>>>>)},
            q \in {BatchOf(<<<<1, 1, -1>>>>),
                   Cartesian3(Arr("list", <<Q(0), Q(2)>>),
                              Arr("list", <<Q(1), Q(0)>>),
                              Arr("ndarray", <<Q(0), Q(4)>>))}}
    \cup {PutSurface(EmptyStore, Surface_from_xy_size(x, y)) :
            x \in Dims, y \in Dims}
    \cup {PutBox(EmptyStore, BoxOf(x, Q(2), Q(3))) : x \in Dims}

StoreScalars == {Q(2)}

StoreAngles == {<<1, 0, 1>>}

StoreInit ==
    /\ \E st \in StoreInputs :
          /\ arrays = st.arrays
          /\ objs = st.objs
          /\ roots = IF st.objs[1].cls = "Cartesian3" /\ Len(st.objs) = 2
                     THEN {1, 2} ELSE {Len(st.objs)}
    /\ last = [call |-> "none", n |-> 0]
    /\ op = "unused" /\ args = NoResult /\ res = NoResult
    /\ dbpc = "unused" /\ uses = <<>>

StoreNext ==
    \/ \E i \in roots : StoreFmap(i)
    \/ \E i \in roots, j \in roots : StoreAdd(i, j)
    \/ \E i \in roots, j \in roots : StoreSub(i, j)
    \/ \E i \in roots, j \in roots : StoreOpZip(i, j)
    \/ \E i \in roots, k \in StoreScalars : StoreMul(i, k)
    \/ \E i \in roots, k \in StoreScalars : StoreTruediv(i, k)
    \/ \E i \in roots, j \in roots : StoreDivide(i, j)
    \/ \E i \in roots, v \in Offsets : StoreMove(i, v)
    \/ \E i \in roots, j \in roots : StoreConcat(i, j)
    \/ \E i \in roots, a \in StoreAngles : StoreRotateYpr(i, a)
    \/ \E i \in roots, j \in roots : StoreDistanceTo(i, j)
    \/ \E i \in roots : StoreToSpherical(i)
    \/ \E i \in roots, v \in Offsets : StoreSurfaceMove(i, v)
    \/ \E i \in roots, a \in StoreAngles : StoreSurfaceRotateYpr(i, a)
    \/ \E i \in roots, v \in Offsets : StoreBoxMove(i, v)
    \/ \E i \in roots, a \in StoreAngles : StoreBoxRotateYpr(i, a)

SpecStore == StoreInit /\ [][StoreNext]_vars

\* C10: no call changes an operand: every array and every object that exists
\* before a call has the same contents after it, and what the call returns
\* is an object (or array) that did not exist before.
C10_OperandsUnchanged ==
    [][ /\ Len(arrays') >= Len(arrays)
        /\ Len(objs') >= Len(objs)
        /\ \A a \in 1..Len(arrays) : arrays'[a] = arrays[a]
        /\ \A o \in 1..Len(objs) : objs'[o] = objs[o]
        /\ "result" \in DOMAIN last' =>
              IF "obj" \in DOMAIN last'.result
              THEN /\ last'.result.obj > Len(objs)
                   /\ last'.result.obj <= Len(objs')
              ELSE /\ last'.result.arr > Len(arrays)
                   /\ last'.result.arr <= Len(arrays') ]_vars

C10_Witness ==
    /\ last.call = "move"
    /\ last.n = 2
    /\ "result" \in DOMAIN last
    /\ last.result.obj = 4
    /\ last.recv = 3
    /\ Val(1) = BatchOf(<<<<1, 2, 3>>, <<1, 0, 0>>>>)
    /\ Val(4) = move(Val(3), <<Q(1), Q(0), Q(0)>>)
    /\ Val(4) # Val(3)

====
